---- MODULE Spec2Model ----
(***************************************************************************)
(* Model of the recursive concurrent crawler of src/main.py.               *)
(*                                                                         *)
(* Every call of crawl_page is a frame, named by its path in the call      *)
(* tree: <<>> is the call made by main, t \o <<i>> the call submitted for   *)
(* the i-th link of frame t.  Strings are sequences of one-character        *)
(* strings, so that startswith, lower, "in" and urljoin are computed.       *)
(***************************************************************************)
EXTENDS Integers, Sequences, FiniteSets, TLC

VARIABLES homepage, query, max_threads, web, visited_urls, frame, search_results

vars == <<homepage, query, max_threads, web, visited_urls, frame, search_results>>

\* Largest value of the -t/--threads option that a run is started with.
MaxThreads == 2

-----------------------------------------------------------------------------
(* Strings *)

Range(s) == {s[i] : i \in 1..Len(s)}

\* str.startswith(prefix)
StartsWith(s, prefix) ==
    /\ Len(prefix) <= Len(s)
    /\ SubSeq(s, 1, Len(prefix)) = prefix

UpperAlpha ==
    <<"A","B","C","D","E","F","G","H","I","J","K","L","M",
      "N","O","P","Q","R","S","T","U","V","W","X","Y","Z">>
LowerAlpha ==
    <<"a","b","c","d","e","f","g","h","i","j","k","l","m",
      "n","o","p","q","r","s","t","u","v","w","x","y","z">>

LowerChar(c) ==
    IF \E i \in 1..Len(UpperAlpha) : UpperAlpha[i] = c
    THEN LowerAlpha[CHOOSE i \in 1..Len(UpperAlpha) : UpperAlpha[i] = c]
    ELSE c

\* str.lower()
Lower(s) == [i \in 1..Len(s) |-> LowerChar(s[i])]

\* needle in hay (substring test)
Contains(hay, needle) ==
    \E i \in 0..(Len(hay) - Len(needle)) :
        SubSeq(hay, i + 1, i + Len(needle)) = needle

\* Index of the first occurrence of character c in s at or after position
\* from, or 0 when there is none.
Find(s, c, from) ==
    IF \E i \in from..Len(s) : s[i] = c
    THEN CHOOSE i \in from..Len(s) :
             s[i] = c /\ \A j \in from..(i - 1) : s[j] # c
    ELSE 0

\* Index of the last occurrence of character c in s, or 0.
RFind(s, c) ==
    IF \E i \in 1..Len(s) : s[i] = c
    THEN CHOOSE i \in 1..Len(s) :
             s[i] = c /\ \A j \in (i + 1)..Len(s) : s[j] # c
    ELSE 0

-----------------------------------------------------------------------------
(* urllib.parse.urljoin, for URLs without params, query and dot segments *)

\* The scheme of a URL: the characters before the first ":" when no "/"
\* comes before it; <<>> when the URL has no scheme.
Scheme(u) ==
    LET c == Find(u, ":", 1)
        s == Find(u, "/", 1)
    IN  IF c > 1 /\ (s = 0 \/ c < s) THEN SubSeq(u, 1, c - 1) ELSE <<>>

\* The URL with "scheme:" removed.
AfterScheme(u) ==
    IF Scheme(u) = <<>> THEN u ELSE SubSeq(u, Len(Scheme(u)) + 2, Len(u))

\* The network location: what follows "//" up to the next "/".
Netloc(u) ==
    LET r == AfterScheme(u)
    IN  IF StartsWith(r, <<"/", "/">>)
        THEN LET e == Find(r, "/", 3)
             IN  IF e = 0 THEN SubSeq(r, 3, Len(r)) ELSE SubSeq(r, 3, e - 1)
        ELSE <<>>

\* The path: what follows the network location.
Path(u) ==
    LET r == AfterScheme(u)
    IN  IF StartsWith(r, <<"/", "/">>)
        THEN LET e == Find(r, "/", 3)
             IN  IF e = 0 THEN <<>> ELSE SubSeq(r, e, Len(r))
        ELSE r

\* urljoin that leaves the href as it is written.
urljoinUnresolved(base, url) == url

urljoin(base, url) ==
    IF base = <<>> THEN url
    ELSE IF url = <<>> THEN base
    ELSE IF Scheme(url) # <<>> /\ Scheme(url) # Scheme(base) THEN url
    ELSE IF Netloc(url) # <<>>
         THEN Scheme(base) \o <<":", "/", "/">> \o Netloc(url) \o Path(url)
    ELSE IF StartsWith(Path(url), <<"/">>)
         THEN Scheme(base) \o <<":", "/", "/">> \o Netloc(base) \o Path(url)
    ELSE Scheme(base) \o <<":", "/", "/">> \o Netloc(base)
             \o SubSeq(Path(base), 1, RFind(Path(base), "/")) \o Path(url)

-----------------------------------------------------------------------------
(* The web the crawler runs against: URLs, hrefs, page texts *)

U_x == <<"h","t","t","p",":","/","/","x",".","c","o","m">>
U_a == <<"h","t","t","p",":","/","/","x",".","c","o","m","/">>
U_b == <<"h","t","t","p",":","/","/","x",".","c","o","m","/","b">>
U_c == <<"h","t","t","p",":","/","/","x",".","c","o","m","/","c">>
U_d == <<"h","t","t","p",":","/","/","x",".","c","o","m","/","d">>
U_e == <<"h","t","t","p",":","/","/","x",".","c","o","m","/","e">>
U_other == <<"h","t","t","p",":","/","/","o","t","h","e","r",".","c","o","m","/","p","a","g","e">>
U_cdn == <<"h","t","t","p",":","/","/","c","d","n",".","c","o","m","/","p">>
U_evil == <<"h","t","t","p",":","/","/","x",".","c","o","m",".","e","v","i","l",".","o","r","g","/">>

U_xa == <<"h","t","t","p",":","/","/","x",".","c","o","m","/","a","/">>
U_xac == <<"h","t","t","p",":","/","/","x",".","c","o","m","/","a","/","c">>

H_root == <<"/">>
H_b == <<"/","b">>
H_c == <<"/","c">>
H_d == <<"/","d">>
H_e == <<"/","e">>
H_cdn == <<"/","/","c","d","n",".","c","o","m","/","p">>

T_hello == <<"h","e","l","l","o">>
T_Hello == <<"S","a","y"," ","H","e","L","L","o">>
T_home == <<"h","o","m","e">>
T_FOO == <<"F","O","O">>
T_foo == <<"f","o","o">>
T_foobar == <<"F","O","O"," ","b","a","r">>

\* A page: the HTTP status of its response, the text get_text() returns for
\* it, and the href attributes of its <a href=...> elements in document order.
Page(status, text, hrefs) == [status |-> status, text |-> text, hrefs |-> hrefs]

\* End-to-end scenario: A->B, A->C, B->A, B->D; only D contains the query.
WebEndToEnd ==
    (U_a :> Page(200, T_home, <<H_b, H_c>>)) @@
    (U_b :> Page(200, T_home, <<H_root, H_d>>)) @@
    (U_c :> Page(200, T_home, <<>>)) @@
    (U_d :> Page(200, T_Hello, <<>>))

\* Fault isolation scenario: A->B, A->C; B answers 500; C contains the query.
WebFault ==
    (U_a :> Page(200, T_home, <<H_b, H_c>>)) @@
    (U_b :> Page(500, T_hello, <<H_d>>)) @@
    (U_c :> Page(200, T_hello, <<>>)) @@
    (U_d :> Page(200, T_hello, <<>>))

\* A links to D twice (a relative and an absolute href of the same page) and
\* to another site; D matches and links back to A.
WebTwice ==
    (U_a :> Page(200, T_home, <<H_d, U_d, U_other>>)) @@
    (U_d :> Page(200, T_foobar, <<H_root>>))

\* Two levels of fan-out: A->B, A->C, B->D, B->E.
WebFanOut ==
    (U_a :> Page(200, T_home, <<H_b, H_c>>)) @@
    (U_b :> Page(200, T_home, <<H_d, H_e>>)) @@
    (U_c :> Page(200, T_hello, <<>>)) @@
    (U_d :> Page(200, T_home, <<>>)) @@
    (U_e :> Page(200, T_Hello, <<>>))

\* Scope filtering from http://x.com: an off-site link, a relative link, a
\* protocol-relative link and a link that merely extends the homepage string.
\* The hosts cdn.com and x.com.evil.org do not answer.
WebScope ==
    (U_x :> Page(200, T_home, <<U_other, H_b, H_cdn, U_evil>>)) @@
    (U_b :> Page(200, T_hello, <<U_x>>)) @@
    (U_other :> Page(200, T_hello, <<>>))

\* A links to B twice and to C, C links to B as well; B answers 500.
WebRetry ==
    (U_a :> Page(200, T_home, <<H_b, U_b, H_c>>)) @@
    (U_b :> Page(500, T_hello, <<>>)) @@
    (U_c :> Page(200, T_home, <<H_b>>))

\* Link normalization: the page http://x.com/a/ holds the hrefs /b and
\* http://x.com/a/c.
WebNormalize ==
    (U_xa :> Page(200, T_home, <<H_b, U_xac>>)) @@
    (U_b :> Page(200, T_foobar, <<>>)) @@
    (U_xac :> Page(200, T_home, <<>>))

\* The runs: the command-line arguments homepage and query, and the web.
Run(h, q, w) == [homepage |-> h, query |-> q, web |-> w]

Runs ==
    << Run(U_a, T_hello, WebEndToEnd),
       Run(U_a, T_hello, WebFault),
       Run(U_a, T_FOO, WebTwice),
       Run(U_a, T_hello, WebFanOut),
       Run(U_x, T_hello, WebScope),
       Run(U_a, T_hello, WebRetry),
       Run(U_evil, T_hello, WebScope),
       Run(U_xa, T_foo, WebNormalize) >>

-----------------------------------------------------------------------------
(* crawl_page *)

Root == <<>>
Parent(t) == SubSeq(t, 1, Len(t) - 1)
Child(t, i) == Append(t, i)

\* The frames of the calls submitted by frame t (line 40), in submit order.
Children(t) == {c \in DOMAIN frame : c # Root /\ Parent(c) = t}

\* The program counter of a call that has returned: at line 24 (the URL was
\* visited), at line 48 (the fetch raised) or at line 44.
Done == {"skipped", "failed", "returned"}

\* A pool thread of the parent's executor is occupied by c from the moment
\* it takes c off the work queue until c's call returns.
Running(c) == frame[c].pc \notin {"queued"} \cup Done

\* line 27: requests.get(url) has been called and has not returned.
InFlight == {t \in DOMAIN frame : frame[t].pc = "fetching"}

\* FetchFails without raise_for_status(): only an unreachable host fails.
FetchFailsNoStatusCheck(url) == url \notin DOMAIN web

\* lines 27-28: the fetch raises a RequestException when the host does not
\* answer (ConnectionError) or raise_for_status() sees a 4xx/5xx status.
FetchFails(url) == IF url \in DOMAIN web THEN web[url].status >= 400 ELSE TRUE

\* Matches without the two lower() calls.
MatchesCaseSensitive(url) ==
    IF Contains(web[url].text, query)
    THEN << <<query, url>> >>
    ELSE <<>>

\* line 33
Matches(url) ==
    IF Contains(Lower(web[url].text), Lower(query))
    THEN << <<Lower(query), url>> >>
    ELSE <<>>

\* InScope without the filter: every href is followed.
InScopeAny(href, url) == TRUE

\* line 35: the filter of the list comprehension
InScope(href, url) == StartsWith(href, <<"/">>) \/ StartsWith(href, url)

\* Sequences.SelectSeq with the test of line 35
RECURSIVE FilterHrefs(_, _)
FilterHrefs(hrefs, url) ==
    IF hrefs = <<>> THEN <<>>
    ELSE IF InScope(Head(hrefs), url)
         THEN <<Head(hrefs)>> \o FilterHrefs(Tail(hrefs), url)
         ELSE FilterHrefs(Tail(hrefs), url)

\* The sequence s without the later occurrences of its entries.
RECURSIVE RemoveDuplicates(_)
RemoveDuplicates(s) ==
    IF s = <<>> THEN <<>>
    ELSE LET r == RemoveDuplicates(SubSeq(s, 1, Len(s) - 1))
         IN  IF s[Len(s)] \in Range(r) THEN r ELSE Append(r, s[Len(s)])

\* Links with the resolved links deduplicated within the page.
LinksDeduplicated(url) ==
    LET hrefs == FilterHrefs(web[url].hrefs, url)
    IN  RemoveDuplicates([i \in 1..Len(hrefs) |-> urljoin(url, hrefs[i])])

\* lines 35-36
Links(url) ==
    LET hrefs == FilterHrefs(web[url].hrefs, url)
    IN  [i \in 1..Len(hrefs) |-> urljoin(url, hrefs[i])]

NewFrame(url, pc) ==
    [url |-> url, pc |-> pc, matches |-> <<>>, links |-> <<>>, collected |-> {}]

Init ==
    /\ \E r \in 1..Len(Runs) :
          /\ homepage = Runs[r].homepage
          /\ query = Runs[r].query
          /\ web = Runs[r].web
    /\ max_threads \in 1..MaxThreads
    /\ visited_urls = {}
    /\ frame = (Root :> NewFrame(homepage, "called"))
    /\ search_results = <<>>

\* ThreadPoolExecutor: a worker thread of the executor that frame Parent(t)
\* opened takes t off the work queue.  The queue is first-in first-out and
\* the executor has at most max_threads threads.
Dequeue(t) ==
    /\ t # Root
    /\ frame[t].pc = "queued"
    /\ \A c \in Children(Parent(t)) :
          c[Len(c)] < t[Len(t)] => frame[c].pc # "queued"
    /\ Cardinality({c \in Children(Parent(t)) : Running(c)}) < max_threads
    /\ frame' = [frame EXCEPT ![t].pc = "called"]
    /\ UNCHANGED <<homepage, query, max_threads, web, visited_urls, search_results>>

\* Check without the test of line 23: no call returns early.
CheckIgnoresVisited(t) ==
    /\ frame[t].pc = "called"
    /\ frame' = [frame EXCEPT ![t].pc = "add"]
    /\ UNCHANGED <<homepage, query, max_threads, web, visited_urls, search_results>>

\* lines 23-24
Check(t) ==
    /\ frame[t].pc = "called"
    /\ IF frame[t].url \in visited_urls
       THEN frame' = [frame EXCEPT ![t].pc = "skipped", ![t].matches = <<>>]
       ELSE frame' = [frame EXCEPT ![t].pc = "add"]
    /\ UNCHANGED <<homepage, query, max_threads, web, visited_urls, search_results>>

\* Add that leaves the visited set as it is.
AddNothing(t) ==
    /\ frame[t].pc = "add"
    /\ frame' = [frame EXCEPT ![t].pc = "get"]
    /\ UNCHANGED <<homepage, query, max_threads, web, visited_urls, search_results>>

\* line 25
Add(t) ==
    /\ frame[t].pc = "add"
    /\ visited_urls' = visited_urls \cup {frame[t].url}
    /\ frame' = [frame EXCEPT ![t].pc = "get"]
    /\ UNCHANGED <<homepage, query, max_threads, web, search_results>>

\* line 27: the request is sent
Get(t) ==
    /\ frame[t].pc = "get"
    /\ frame' = [frame EXCEPT ![t].pc = "fetching"]
    /\ UNCHANGED <<homepage, query, max_threads, web, visited_urls, search_results>>

\* lines 27-40: the response arrives, the page is parsed and matched, its
\* links are filtered and resolved, and one call is submitted per link.
Response(t) ==
    /\ frame[t].pc = "fetching"
    /\ ~FetchFails(frame[t].url)
    /\ LET url == frame[t].url
           links == Links(url)
           futures == [c \in {Child(t, i) : i \in 1..Len(links)} |->
                          NewFrame(links[c[Len(c)]], "queued")]
       IN  frame' = futures @@
                    [frame EXCEPT ![t].pc = "collect",
                                  ![t].matches = Matches(url),
                                  ![t].links = links]
    /\ UNCHANGED <<homepage, query, max_threads, web, visited_urls, search_results>>

\* RequestException without the handler of line 46: the exception leaves the
\* call and is raised again by future.result() in the caller (line 42).
RequestExceptionUncaught(t) ==
    /\ frame[t].pc = "fetching"
    /\ FetchFails(frame[t].url)
    /\ frame' = [c \in DOMAIN frame |->
                    IF c = t \/ (t # Root /\ c = Parent(t))
                    THEN [frame[c] EXCEPT !.pc = "failed", !.matches = <<>>]
                    ELSE frame[c]]
    /\ UNCHANGED <<homepage, query, max_threads, web, visited_urls, search_results>>

\* RequestException whose handler raises again: the call never returns a
\* value and the exception ends the run.
RequestExceptionRaises(t) ==
    /\ frame[t].pc = "fetching"
    /\ FetchFails(frame[t].url)
    /\ frame' = [frame EXCEPT ![t].pc = "raised"]
    /\ UNCHANGED <<homepage, query, max_threads, web, visited_urls, search_results>>

\* lines 27-28, 46-48: the fetch raises, the handler returns []
RequestException(t) ==
    /\ frame[t].pc = "fetching"
    /\ FetchFails(frame[t].url)
    /\ frame' = [frame EXCEPT ![t].pc = "failed", ![t].matches = <<>>]
    /\ UNCHANGED <<homepage, query, max_threads, web, visited_urls, search_results>>

\* Collect that drops the result of the finished future.
CollectDropsResult(t, i) ==
    /\ frame[t].pc = "collect"
    /\ i \in 1..Len(frame[t].links)
    /\ i \notin frame[t].collected
    /\ frame[Child(t, i)].pc \in Done
    /\ frame' = [frame EXCEPT ![t].collected = @ \cup {i}]
    /\ UNCHANGED <<homepage, query, max_threads, web, visited_urls, search_results>>

\* lines 41-42: as_completed yields a finished future, its result is appended
Collect(t, i) ==
    /\ frame[t].pc = "collect"
    /\ i \in 1..Len(frame[t].links)
    /\ i \notin frame[t].collected
    /\ frame[Child(t, i)].pc \in Done
    /\ frame' = [frame EXCEPT
                    ![t].matches = @ \o frame[Child(t, i)].matches,
                    ![t].collected = @ \cup {i}]
    /\ UNCHANGED <<homepage, query, max_threads, web, visited_urls, search_results>>

\* Return that does not wait for the submitted calls.
ReturnWithoutWaiting(t) ==
    /\ frame[t].pc = "collect"
    /\ frame' = [frame EXCEPT ![t].pc = "returned"]
    /\ UNCHANGED <<homepage, query, max_threads, web, visited_urls, search_results>>

\* lines 41, 44: as_completed is exhausted, the executor shuts down, return
Return(t) ==
    /\ frame[t].pc = "collect"
    /\ frame[t].collected = 1..Len(frame[t].links)
    /\ frame' = [frame EXCEPT ![t].pc = "returned"]
    /\ UNCHANGED <<homepage, query, max_threads, web, visited_urls, search_results>>

\* lines 72-73, 58-62: crawl_page has returned to main, which writes the
\* header row and one row per result to search_results.csv
save_results_to_csv ==
    /\ frame[Root].pc \in Done
    /\ search_results = <<>>
    /\ search_results' = << <<"Text", "URL">> >> \o frame[Root].matches
    /\ UNCHANGED <<homepage, query, max_threads, web, visited_urls, frame>>

Next ==
    \/ \E t \in DOMAIN frame : Dequeue(t)
    \/ \E t \in DOMAIN frame : Check(t)
    \/ \E t \in DOMAIN frame : Add(t)
    \/ \E t \in DOMAIN frame : Get(t)
    \/ \E t \in DOMAIN frame : Response(t)
    \/ \E t \in DOMAIN frame : RequestException(t)
    \/ \E t \in DOMAIN frame : \E i \in 1..Len(frame[t].links) : Collect(t, i)
    \/ \E t \in DOMAIN frame : Return(t)
    \/ save_results_to_csv

Spec == Init /\ [][Next]_vars

\* Every thread that can take a step eventually takes one.
FairSpec == Spec /\ WF_vars(Next)

-----------------------------------------------------------------------------
(* What is observed of a run *)

\* crawl_page has returned to main (line 72); results is its return value.
Returned == frame[Root].pc \in Done
results == frame[Root].matches

\* The calls that executed visited_urls.add(url) (line 25).
Claims(url) ==
    {t \in DOMAIN frame :
        frame[t].url = url /\ frame[t].pc \notin {"queued", "called", "add", "skipped"}}

\* The calls that issued requests.get(url) (line 27).
Fetches(url) ==
    {t \in DOMAIN frame :
        frame[t].url = url /\ frame[t].pc \in {"fetching", "collect", "failed", "returned"}}

\* Every URL some call was made for.
Urls == {frame[t].url : t \in DOMAIN frame}

TypeOK ==
    /\ max_threads \in 1..MaxThreads
    /\ visited_urls \subseteq Urls
    /\ \A t \in DOMAIN frame :
          /\ frame[t].pc \in {"queued", "called", "add", "get", "fetching", "collect"} \cup Done
          /\ frame[t].collected \subseteq 1..Len(frame[t].links)

-----------------------------------------------------------------------------
(* Helpers of the properties *)

\* The number of entries of sequence s equal to x.
Count(s, x) == Cardinality({i \in 1..Len(s) : s[i] = x})

\* The URLs the page at url links to, as the crawler resolves them.
Succ(url) == IF FetchFails(url) THEN {} ELSE Range(Links(url))

\* The URLs reachable from the set S in one or more link steps.
RECURSIVE ReachFrom(_)
ReachFrom(S) ==
    LET T == S \cup UNION {Succ(u) : u \in S}
    IN  IF T = S THEN S ELSE ReachFrom(T)

OnCycle(url) == url \in ReachFrom(Succ(url))

\* Characters a and b are the same letter in either case, or the same
\* character.
SameLetter(a, b) ==
    \/ a = b
    \/ \E j \in 1..Len(UpperAlpha) : {a, b} = {UpperAlpha[j], LowerAlpha[j]}

\* q occurs in text when case is ignored.
OccursIgnoringCase(text, q) ==
    \E i \in 0..(Len(text) - Len(q)) :
        \A k \in 1..Len(q) : SameLetter(text[i + k], q[k])

\* s is q with every upper-case letter replaced by its lower-case letter.
IsLowerOf(s, q) ==
    /\ Len(s) = Len(q)
    /\ \A k \in 1..Len(q) : SameLetter(s[k], q[k]) /\ s[k] \notin Range(UpperAlpha)

\* The URL is absolute: it begins with http://
Absolute(u) == StartsWith(u, <<"h", "t", "t", "p", ":", "/", "/">>)

\* The page of a call was fetched without error and parsed.
Extracted(t) ==
    /\ frame[t].pc \in {"collect", "returned"}
    /\ frame[t].url \in DOMAIN web
    /\ web[frame[t].url].status < 400

-----------------------------------------------------------------------------
(* Properties *)

\* C1: each distinct URL is fetched at most once, whatever the interleaving
\* of the workers: no two calls both pass the visited check for one URL and
\* both issue requests.get for it.
C1_FetchedAtMostOnce ==
    \A u \in Urls : Cardinality(Fetches(u)) <= 1

\* C2: with max_threads = N there are never more than N fetches in flight
\* and never more than N workers running a call.
C2_AtMostNInFlight ==
    /\ Cardinality(InFlight) <= max_threads
    /\ Cardinality({t \in DOMAIN frame : t # Root /\ Running(t)}) <= max_threads

\* C3: a run over a finite link graph never gets stuck before it has
\* returned, and when it has returned every URL that lies on a link cycle
\* and was reached has been fetched exactly once.
C3_CycleNodesFetchedOnce ==
    /\ ~Returned => ENABLED Next
    /\ Returned =>
          \A u \in visited_urls :
              OnCycle(u) => Cardinality(Fetches(u)) = 1

\* Under fair scheduling every run returns and writes its results.
Terminates == <>(Returned /\ search_results # <<>>)


C5_EndToEnd ==
    web = WebEndToEnd =>
        /\ \A u \in Urls : Cardinality(Claims(u)) <= 1
        /\ Returned =>
              /\ results = << <<T_hello, U_d>> >>
              /\ \A u \in {U_a, U_b, U_c, U_d} : Cardinality(Claims(u)) = 1
              /\ visited_urls = {U_a, U_b, U_c, U_d}
              /\ Cardinality(visited_urls) = 4

C5_Witness ==
    /\ web = WebEndToEnd
    /\ max_threads = 2
    /\ Returned
    /\ \E t \in DOMAIN frame : frame[t].url = U_a /\ frame[t].pc = "skipped"

\* C6: the returned results never hold two entries for the same URL.
C6_OneResultPerUrl ==
    Returned =>
        \A i, j \in 1..Len(results) :
            results[i][2] = results[j][2] => i = j

\* C7: when the top-level call has returned, every call has returned (none
\* is queued, running or fetching), every claimed URL has finished, and
\* the returned results hold one entry for every match a call found; the
\* results file is written only after that.
C7_ReturnsAfterDrain ==
    /\ Returned =>
          /\ \A t \in DOMAIN frame : frame[t].pc \in Done
          /\ InFlight = {}
          /\ \A u \in visited_urls :
                Claims(u) # {} /\ \A t \in Claims(u) : frame[t].pc \in {"failed", "returned"}
          /\ \A u \in Urls :
                Count(results, <<Lower(query), u>>) =
                    Cardinality({t \in DOMAIN frame :
                        /\ frame[t].url = u
                        /\ frame[t].pc = "returned"
                        /\ Contains(Lower(web[u].text), Lower(query))})
    /\ search_results # <<>> =>
          Returned /\ search_results = << <<"Text", "URL">> >> \o results

C7_Witness ==
    /\ Returned
    /\ results # <<>>
    /\ \E t \in DOMAIN frame : Len(t) = 2 /\ frame[t].pc = "returned"


\* C8: every call other than the one main makes was submitted by a call
\* that is already in the visited set, whose page was fetched without error
\* and parsed, and whose page holds an href resolving to the URL of the
\* call; every URL in the visited set is the homepage or such a link.
C8_LinkAfterPage ==
    /\ \A t \in DOMAIN frame :
          t # Root =>
              LET p == frame[Parent(t)]
              IN  /\ p.pc \in {"collect", "returned"}
                  /\ p.url \in visited_urls
                  /\ p.url \in DOMAIN web
                  /\ web[p.url].status < 400
                  /\ \E h \in Range(web[p.url].hrefs) :
                        urljoin(p.url, h) = frame[t].url
    /\ \A u \in visited_urls :
          \/ u = homepage
          \/ \E t \in DOMAIN frame :
                /\ frame[t].pc \in {"collect", "returned"}
                /\ web[frame[t].url].status < 400
                /\ \E h \in Range(web[frame[t].url].hrefs) :
                      urljoin(frame[t].url, h) = u

C8_Witness ==
    /\ web = WebFault
    /\ Returned
    /\ \E t \in DOMAIN frame : frame[t].url = U_b /\ frame[t].pc = "failed"
    /\ U_c \in visited_urls
    /\ U_d \notin visited_urls

\* C9: every call submitted from a page is for an href of that page that
\* begins with "/" or with the page's own URL; an href that does neither is
\* not followed: crawling http://x.com, http://other.com/page is never
\* claimed or fetched.
C9_OnlyInScopeFollowed ==
    /\ \A t \in DOMAIN frame :
          t # Root =>
              LET p == frame[Parent(t)]
              IN  \E h \in Range(web[p.url].hrefs) :
                      /\ StartsWith(h, <<"/">>) \/ StartsWith(h, p.url)
                      /\ urljoin(p.url, h) = frame[t].url
    /\ web = WebScope =>
          /\ U_other \notin visited_urls
          /\ U_other \notin Urls
          /\ U_x \notin {frame[t].url : t \in DOMAIN frame \ {Root}}

C9_Witness ==
    /\ web = WebScope
    /\ Returned
    /\ {frame[t].url : t \in Children(Root)} = {U_b, U_cdn, U_evil}
    /\ \E t \in DOMAIN frame : frame[t].url = U_b /\ frame[t].pc = "returned"

C11_FailedFetchedOnce ==
    \A t \in DOMAIN frame :
        frame[t].pc = "failed" =>
            /\ frame[t].url \in visited_urls
            /\ Cardinality(Fetches(frame[t].url)) = 1

\* C12: when the fetch of the homepage fails the run is never stuck before
\* the results file is written, crawl_page returns the empty list without
\* having submitted any call, and the file holds only the header row.
C12_SeedFailureReturnsEmpty ==
    FetchFails(homepage) =>
        /\ ~(Returned /\ search_results # <<>>) => ENABLED Next
        /\ DOMAIN frame = {Root}
        /\ Returned => frame[Root].pc = "failed" /\ results = <<>>
        /\ search_results # <<>> => search_results = << <<"Text", "URL">> >>

C12_Witness ==
    /\ FetchFails(homepage)
    /\ Returned
    /\ visited_urls = {homepage}
    /\ search_results = << <<"Text", "URL">> >>

\* C13: a call that finds its URL in the visited set at line 23 returns []
\* and changes nothing else: the visited set, every other call and the
\* results file stay as they are, and the call never fetches, matches or
\* submits a link.
C13_SkipHasNoEffect ==
    /\ [](\A t \in DOMAIN frame :
             frame[t].pc = "skipped" =>
                 /\ frame[t].matches = <<>>
                 /\ frame[t].links = <<>>
                 /\ Children(t) = {})
    /\ [][\A t \in DOMAIN frame :
             (/\ frame[t].pc = "called"
              /\ frame[t].url \in visited_urls
              /\ frame'[t] # frame[t])
             => /\ frame' = [frame EXCEPT ![t].pc = "skipped"]
                /\ visited_urls' = visited_urls
                /\ search_results' = search_results]_vars

C13_Witness ==
    \E t \in DOMAIN frame :
        /\ frame[t].pc = "skipped"
        /\ frame[Parent(t)].pc = "returned"
        /\ frame[t].url \in visited_urls


\* C14: a call whose page was fetched holds exactly one result for its own
\* URL when the query occurs in the page text with case ignored, and none
\* otherwise; every result is the pair (query in lower case, URL).  The page
\* "FOO bar" matches the queries "FOO" and "foo" with the result "foo".
C14_CaseInsensitiveMatch ==
    /\ \A t \in DOMAIN frame :
          /\ Extracted(t) =>
                Cardinality({i \in 1..Len(frame[t].matches) :
                                frame[t].matches[i][2] = frame[t].url})
                = IF OccursIgnoringCase(web[frame[t].url].text, query) THEN 1 ELSE 0
          /\ \A i \in 1..Len(frame[t].matches) :
                IsLowerOf(frame[t].matches[i][1], query)
    /\ (Returned /\ web = WebTwice) =>
          results # <<>> /\ Range(results) = { <<T_foo, U_d>> }
    /\ (Returned /\ web = WebNormalize) => results = << <<T_foo, U_b>> >>

C14_Witness ==
    /\ web = WebTwice
    /\ query = T_FOO
    /\ Returned
    /\ <<T_foo, U_d>> \in Range(results)

\* C15: the URL of every submitted call and every URL in the visited set is
\* absolute; on page http://x.com/a/ the href /b is claimed as
\* http://x.com/b and the href http://x.com/a/c as itself; the hrefs /d and
\* http://x.com/d of one page are one URL in the visited set.
C15_LinksResolved ==
    /\ \A t \in DOMAIN frame : Absolute(frame[t].url)
    /\ \A u \in visited_urls : Absolute(u)
    /\ web = WebNormalize =>
          /\ frame[Root].pc \in {"collect", "returned"} =>
                /\ frame[Root].links = <<U_b, U_xac>>
                /\ frame[<<1>>].url = U_b
                /\ frame[<<2>>].url = U_xac
          /\ Returned => visited_urls = {U_xa, U_b, U_xac}
    /\ (web = WebTwice /\ Returned) => visited_urls = {U_a, U_d}

C15_Witness ==
    /\ web = WebNormalize
    /\ Returned
    /\ visited_urls = {U_xa, U_b, U_xac}
    /\ Cardinality(Fetches(U_b)) = 1
    /\ Cardinality(Fetches(U_xac)) = 1

\* C16: when the run has returned, every URL reachable from the homepage
\* over in-scope links of pages that answer without error has been claimed
\* and fetched, and every such page whose text holds the query has its
\* result (query in lower case, URL) in the returned list.
C16_Complete ==
    Returned =>
        \A u \in ReachFrom({homepage}) :
            /\ u \in visited_urls
            /\ Fetches(u) # {}
            /\ (~FetchFails(u) /\ OccursIgnoringCase(web[u].text, query)) =>
                  \E i \in 1..Len(results) :
                      results[i][2] = u /\ IsLowerOf(results[i][1], query)

C16_Witness ==
    /\ web = WebTwice
    /\ max_threads = 2
    /\ Returned
    /\ \E t \in DOMAIN frame : frame[t].url = U_d /\ frame[t].pc = "skipped"
    /\ results = << <<T_foo, U_d>> >>

\* C17: a URL that is being fetched or has been fetched is in the visited
\* set; the visited set holds only the homepage and absolute URLs that
\* in-scope hrefs of pages fetched without error resolve to; no step removes
\* a URL from the visited set.
C17_VisitedSet ==
    /\ [](\A t \in DOMAIN frame :
             frame[t].pc \in {"fetching", "collect", "failed", "returned"}
                 => frame[t].url \in visited_urls)
    /\ [](\A u \in visited_urls :
             \/ u = homepage
             \/ /\ Absolute(u)
                /\ \E t \in DOMAIN frame :
                      /\ Extracted(t)
                      /\ \E h \in Range(web[frame[t].url].hrefs) :
                            /\ StartsWith(h, <<"/">>) \/ StartsWith(h, frame[t].url)
                            /\ urljoin(frame[t].url, h) = u)
    /\ [][visited_urls \subseteq visited_urls']_vars

C17_Witness ==
    /\ web = WebScope
    /\ homepage = U_x
    /\ visited_urls = {U_x, U_b, U_cdn, U_evil}
    /\ InFlight # {}

\* C18: every result held by any call, and so every returned result, names
\* a URL that is in the visited set, that some call fetched without error,
\* and whose text holds the query; a URL whose fetch fails or that was never
\* claimed is in no result.
C18_ResultsAreFetchedMatches ==
    \A t \in DOMAIN frame :
        \A i \in 1..Len(frame[t].matches) :
            LET u == frame[t].matches[i][2]
            IN  /\ u \in visited_urls
                /\ Claims(u) # {}
                /\ \E f \in DOMAIN frame : frame[f].url = u /\ Extracted(f)
                /\ OccursIgnoringCase(web[u].text, query)

C18_Witness ==
    /\ web = WebFault
    /\ Returned
    /\ U_b \in visited_urls
    /\ Len(results) = 1
    /\ results[1][2] = U_c

====
